---- MODULE Spec2Model ----
(***************************************************************************)
(* Group/policy authorization core of EnclaveRunner/shareddeps.            *)
(*                                                                         *)
(* The enforcer holds three relations in memory: the policy rules p        *)
(* (user group, resource group, action), the user grouping rules g and the *)
(* resource grouping rules g2 (entity, group).  The adapter holds the      *)
(* persisted copy, written by SavePolicy and read by LoadPolicy.           *)
(* The group manager (one generic implementation, parameterised by the     *)
(* grouping type "g" or "g2") and the policy manager translate their calls *)
(* into enforcer calls.  Every enforcer call may fail.                     *)
(***************************************************************************)
EXTENDS Integers, Sequences, FiniteSets, TLC

VARIABLES enforcer, adapter, phase, last, nops, req, calls

vars == <<enforcer, adapter, phase, last, nops, req, calls>>

-----------------------------------------------------------------------------
(* Program constants (auth/const.go)                                       *)

nullUser == "null_user"

nullResource == "null_resource"

enclaveAdminGroup == "enclave_admin"

UnauthenticatedUser == "__unauthenticated__"

UserGroupType == "g"

ResourceGroupType == "g2"

StatusUnauthorized == 401

StatusForbidden == 403

StatusInternalServerError == 500

StatusOK == 200

-----------------------------------------------------------------------------
(* Bounds                                                                  *)

\* number of manager operations issued after initialization
MaxOps == 2

\* longest variadic group list passed to AddToGroup / RemoveFromGroup
MaxGroups == 2

-----------------------------------------------------------------------------
(* Argument universes                                                      *)

GroupTypes == {UserGroupType, ResourceGroupType}

\* "team1" is a name a group of either kind can carry
GroupArgs(gt) ==
    IF gt = UserGroupType THEN {enclaveAdminGroup, "team1", ""}
                          ELSE {enclaveAdminGroup, "docs", "team1", ""}

\* group names passed in the variadic lists of AddToGroup / RemoveFromGroup
ListedGroupArgs(gt) ==
    IF gt = UserGroupType THEN {enclaveAdminGroup, "team1"}
                          ELSE {enclaveAdminGroup, "docs"}

EntityArgs(gt) ==
    IF gt = UserGroupType THEN {nullUser, "alice", "team1", ""}
                          ELSE {nullResource, "/docs", "docs", ""}

PolicyUserGroupArgs == {enclaveAdminGroup, "team1", "*"}

PolicyResourceGroupArgs == {"docs", "*"}

PolicyMethodArgs == {"GET", "*"}

\* entities named in AddToGroup / RemoveFromGroup calls
MemberArgs(gt) ==
    IF gt = UserGroupType THEN {nullUser, "alice"}
                          ELSE {nullResource, "/docs"}

\* group lists of AddToGroup / RemoveFromGroup: up to MaxGroups named groups,
\* none named twice, and the list that names only the empty string
GroupLists(gt) ==
    {gs \in UNION {[1..n -> ListedGroupArgs(gt)] : n \in 0..MaxGroups} :
        \A i, j \in 1..Len(gs) : gs[i] = gs[j] => i = j}
    \cup {<<"">>}

\* the identities, paths and methods an Enforce call is asked about
Subjects == {nullUser, "alice", "mallory", enclaveAdminGroup, UnauthenticatedUser}

Objects == {"/docs", "/health"}

Methods == {"GET", "DELETE"}

AdminPolicy == <<enclaveAdminGroup, "*", "*">>

EmptyRules == [p |-> {}, g |-> {}, g2 |-> {}]

\* contents of the store found at start-up
StoredRuleSets ==
    { EmptyRules,
      [p |-> {AdminPolicy}, g |-> {<<nullUser, enclaveAdminGroup>>}, g2 |-> {}],
      [p |-> {}, g |-> {<<"alice", enclaveAdminGroup>>}, g2 |-> {}],
      [p |-> {AdminPolicy, <<"team1", "docs", "GET">>},
       g |-> {<<nullUser, enclaveAdminGroup>>, <<"team1", "team1">>, <<"alice", "team1">>},
       g2 |-> {<<"docs", "docs">>, <<"/docs", "docs">>}] }

-----------------------------------------------------------------------------
(* The policy engine, as the managers use it                               *)

\* a filter value of "" matches every value of the field
FieldMatches(fieldValue, value) == fieldValue = "" \/ value = fieldValue

GetFilteredNamedGroupingPolicy(e, gt, fieldIndex, fieldValue) ==
    {r \in e[gt] : FieldMatches(fieldValue, r[fieldIndex + 1])}

RemoveFilteredNamedGroupingPolicy(e, gt, fieldIndex, fieldValue) ==
    [e EXCEPT ![gt] = {r \in e[gt] : ~FieldMatches(fieldValue, r[fieldIndex + 1])}]

\* AddNamedGroupingPolicies adds nothing when one of the rules is already held
AddNamedGroupingPolicies(e, gt, rules) ==
    IF rules \cap e[gt] # {} THEN e ELSE [e EXCEPT ![gt] = @ \cup rules]

RemoveNamedGroupingPolicies(e, gt, rules) ==
    [e EXCEPT ![gt] = @ \ rules]

GetFilteredPolicy(e, ug, rg, method) ==
    {r \in e.p : /\ FieldMatches(ug, r[1])
                 /\ FieldMatches(rg, r[2])
                 /\ FieldMatches(method, r[3])}

RemoveFilteredPolicy(e, fieldIndex, fieldValue) ==
    [e EXCEPT !.p = {r \in e.p : ~FieldMatches(fieldValue, r[fieldIndex + 1])}]

EngineAddPolicy(e, rule) == [e EXCEPT !.p = @ \cup {rule}]

EngineRemovePolicy(e, rule) == [e EXCEPT !.p = @ \ {rule}]

\* names reachable from the names in S along the rules of one role definition
RECURSIVE Reach(_, _)
Reach(rules, S) ==
    LET T == S \cup {r[2] : r \in {x \in rules : x[1] \in S}}
    IN  IF T = S THEN S ELSE Reach(rules, T)

\* g(name1, name2) of the matcher: equal names, or linked through the rules
HasLink(rules, name1, name2) == name2 \in Reach(rules, {name1})

Matches(e, rule, sub, obj, act) ==
    /\ HasLink(e.g, sub, rule[1]) \/ rule[1] = "*"
    /\ HasLink(e.g2, obj, rule[2]) \/ rule[2] = "*"
    /\ act = rule[3] \/ rule[3] = "*"

Enforce(e, sub, obj, act) == \E rule \in e.p : Matches(e, rule, sub, obj, act)

-----------------------------------------------------------------------------
(* Results of a manager call: the rules held by the enforcer and by the    *)
(* adapter after the call, and the error returned                          *)

Res(e, a, err, name) == [enforcer |-> e, adapter |-> a, err |-> err, name |-> name]

NoLast == [op |-> "none", gt |-> "-", args |-> <<>>, err |-> "nil", name |-> ""]

-----------------------------------------------------------------------------
(* Points at which an enforcer call of a manager operation may fail:       *)
(* "read" the first query, "write" the first mutating call, "write2" the   *)
(* second mutating call, "save" the SavePolicy call                        *)

ReadWriteSave == {"none", "read", "write", "save"}

WriteSave == {"none", "write", "save"}

-----------------------------------------------------------------------------
(* Group manager (generic over the grouping type)                          *)

\* groupManager.nullName, set by newUserGroupManager / newResourceGroupManager
NullName(gt) == IF gt = UserGroupType THEN nullUser ELSE nullResource

GroupExists(e, gt, groupName) ==
    Cardinality(GetFilteredNamedGroupingPolicy(e, gt, 1, groupName)) > 0

\* variant: the protected name is compared with a stale spelling
IsProtectedGroup_StaleName(groupName) == groupName = "enclaveAdmin"

\* the check that opens RemoveGroup
IsProtectedGroup(groupName) == groupName = enclaveAdminGroup

\* variant: both kinds compare with the null user
IsReserved_NullUserOnly(gt, entityName) == entityName = nullUser

\* the check that opens AddToGroup, RemoveFromGroup and RemoveEntity
IsReserved(gt, entityName) == entityName = NullName(gt)

\* variant: the rules are filtered on the resource group field
RemoveGroupPolicies_ResourceField(e, groupName) == RemoveFilteredPolicy(e, 1, groupName)

\* the policy rules RemoveGroup removes together with the group
RemoveGroupPolicies(e, groupName) == RemoveFilteredPolicy(e, 0, groupName)

CreateGroupResult(e, a, gt, groupName, f) ==
    IF f = "read" THEN Res(e, a, "Casbin", "GroupExists")
    ELSE IF GroupExists(e, gt, groupName) THEN Res(e, a, "nil", "")
    ELSE IF f = "write" THEN Res(e, a, "Casbin", "CreateGroup")
    ELSE LET e2 == AddNamedGroupingPolicies(e, gt, {<<groupName, groupName>>})
         IN  IF f = "save" THEN Res(e2, a, "Casbin", "CreateGroup")
             ELSE Res(e2, e2, "nil", "")

\* variant: a failing policy removal puts the removed rows back
RemoveGroupResult_RollsBack(e, a, gt, groupName, f) ==
    IF IsProtectedGroup(groupName) THEN Res(e, a, "Conflict", "")
    ELSE IF f = "read" THEN Res(e, a, "Casbin", "GroupExists")
    ELSE IF ~GroupExists(e, gt, groupName) THEN Res(e, a, "NotFound", groupName)
    ELSE IF f \in {"write", "write2"} THEN Res(e, a, "Casbin", "RemoveGroup")
    ELSE LET e3 == RemoveGroupPolicies(
                       RemoveFilteredNamedGroupingPolicy(e, gt, 1, groupName), groupName)
         IN  IF f = "save" THEN Res(e3, a, "Casbin", "RemoveGroup")
             ELSE Res(e3, e3, "nil", "")

\* f names the engine call that fails: "read" the existence check, "write"
\* the row removal, "write2" the policy removal, "save" SavePolicy
RemoveGroupResult(e, a, gt, groupName, f) ==
    IF IsProtectedGroup(groupName) THEN Res(e, a, "Conflict", "")
    ELSE IF f = "read" THEN Res(e, a, "Casbin", "GroupExists")
    ELSE IF ~GroupExists(e, gt, groupName) THEN Res(e, a, "NotFound", groupName)
    ELSE IF f = "write" THEN Res(e, a, "Casbin", "RemoveGroup")
    ELSE LET e2 == RemoveFilteredNamedGroupingPolicy(e, gt, 1, groupName)
         IN  IF f = "write2" THEN Res(e2, a, "Casbin", "RemoveGroup")
             ELSE LET e3 == RemoveGroupPolicies(e2, groupName)
                  IN  IF f = "save" THEN Res(e3, a, "Casbin", "RemoveGroup")
                      ELSE Res(e3, e3, "nil", "")

\* position of the first group of the list that does not exist, 0 if none
FirstMissing(e, gt, groups) ==
    LET missing == {i \in 1..Len(groups) : ~GroupExists(e, gt, groups[i])}
    IN  IF missing = {} THEN 0
        ELSE CHOOSE i \in missing : \A j \in missing : i <= j

GroupingPolicies(entityName, groups) ==
    {<<entityName, groups[i]>> : i \in 1..Len(groups)}

\* variant: the groups found before the missing one get their row at once
AddToGroupResult_AddsWhileChecking(e, a, gt, entityName, groups, f) ==
    IF IsReserved(gt, entityName) THEN Res(e, a, "Conflict", "")
    ELSE IF f = "read" /\ Len(groups) > 0 THEN Res(e, a, "Casbin", "GroupExists")
    ELSE IF FirstMissing(e, gt, groups) # 0
         THEN Res(AddNamedGroupingPolicies(e, gt,
                      {<<entityName, groups[i]>> : i \in 1..(FirstMissing(e, gt, groups) - 1)}),
                  a, "NotFound", groups[FirstMissing(e, gt, groups)])
    ELSE IF f = "write" THEN Res(e, a, "Casbin", "AddToGroup")
    ELSE LET e2 == AddNamedGroupingPolicies(e, gt, GroupingPolicies(entityName, groups))
         IN  IF f = "save" THEN Res(e2, a, "Casbin", "AddToGroup")
             ELSE Res(e2, e2, "nil", "")

AddToGroupResult(e, a, gt, entityName, groups, f) ==
    IF IsReserved(gt, entityName) THEN Res(e, a, "Conflict", "")
    ELSE IF f = "read" /\ Len(groups) > 0 THEN Res(e, a, "Casbin", "GroupExists")
    ELSE IF FirstMissing(e, gt, groups) # 0
         THEN Res(e, a, "NotFound", groups[FirstMissing(e, gt, groups)])
    ELSE IF f = "write" THEN Res(e, a, "Casbin", "AddToGroup")
    ELSE LET e2 == AddNamedGroupingPolicies(e, gt, GroupingPolicies(entityName, groups))
         IN  IF f = "save" THEN Res(e2, a, "Casbin", "AddToGroup")
             ELSE Res(e2, e2, "nil", "")

RemoveFromGroupResult(e, a, gt, entityName, groups, f) ==
    IF IsReserved(gt, entityName) THEN Res(e, a, "Conflict", "")
    ELSE IF f = "read" /\ Len(groups) > 0 THEN Res(e, a, "Casbin", "GroupExists")
    ELSE IF FirstMissing(e, gt, groups) # 0
         THEN Res(e, a, "NotFound", groups[FirstMissing(e, gt, groups)])
    ELSE IF f = "write" THEN Res(e, a, "Casbin", "RemoveFromGroup")
    ELSE LET e2 == RemoveNamedGroupingPolicies(e, gt, GroupingPolicies(entityName, groups))
         IN  IF f = "save" THEN Res(e2, a, "Casbin", "RemoveFromGroup")
             ELSE Res(e2, e2, "nil", "")

RemoveEntityResult(e, a, gt, entityName, f) ==
    IF IsReserved(gt, entityName) THEN Res(e, a, "Conflict", "")
    ELSE IF f = "write" THEN Res(e, a, "Casbin", "RemoveEntity")
    ELSE LET e2 == RemoveFilteredNamedGroupingPolicy(e, gt, 0, entityName)
         IN  IF f = "save" THEN Res(e2, a, "Casbin", "RemoveEntity")
             ELSE Res(e2, e2, "nil", "")

GetGroupsForEntity(e, gt, entityName) ==
    {r[2] : r \in GetFilteredNamedGroupingPolicy(e, gt, 0, entityName)}

\* one struct per membership row of the kind
GetGroups(e, gt) == {[Name |-> r[1], GroupName |-> r[2]] : r \in e[gt]}

\* the rows of the group whose entity is not the null user, for either kind
GetEntitiesInGroup(e, gt, groupName) ==
    IF ~GroupExists(e, gt, groupName)
    THEN [err |-> "NotFound", name |-> groupName, entityNames |-> {}]
    ELSE [err |-> "nil", name |-> "",
          entityNames |->
              {r[1] : r \in {x \in GetFilteredNamedGroupingPolicy(e, gt, 1, groupName) :
                                 x[1] # nullUser}}]

-----------------------------------------------------------------------------
(* Policy manager                                                          *)

\* the check that opens RemovePolicy
IsAdminPolicy(userGroup, resourceGroup, method) ==
    userGroup = enclaveAdminGroup /\ resourceGroup = "*" /\ method = "*"

AddPolicyResult(e, a, userGroup, resourceGroup, method, f) ==
    IF f = "read" THEN Res(e, a, "Casbin", "GetFilteredPolicy")
    ELSE IF userGroup # "*" /\ ~GroupExists(e, UserGroupType, userGroup)
         THEN Res(e, a, "NotFound", userGroup)
    ELSE IF resourceGroup # "*" /\ ~GroupExists(e, ResourceGroupType, resourceGroup)
         THEN Res(e, a, "NotFound", resourceGroup)
    ELSE IF Cardinality(GetFilteredPolicy(e, userGroup, resourceGroup, method)) > 0
         THEN Res(e, a, "nil", "")
    ELSE IF f = "write" THEN Res(e, a, "Casbin", "AddPolicy")
    ELSE LET e2 == EngineAddPolicy(e, <<userGroup, resourceGroup, method>>)
         IN  IF f = "save" THEN Res(e2, a, "Casbin", "AddPolicy")
             ELSE Res(e2, e2, "nil", "")

RemovePolicyResult(e, a, userGroup, resourceGroup, method, f) ==
    IF IsAdminPolicy(userGroup, resourceGroup, method) THEN Res(e, a, "Conflict", "")
    ELSE IF f = "write" THEN Res(e, a, "Casbin", "RemovePolicy")
    ELSE LET e2 == EngineRemovePolicy(e, <<userGroup, resourceGroup, method>>)
         IN  IF f = "save" THEN Res(e2, a, "Casbin", "RemovePolicy")
             ELSE Res(e2, e2, "nil", "")

ListPolicies(e) == e.p

-----------------------------------------------------------------------------
(* Bootstrap                                                               *)

\* InitAuth: load the stored rules, seed the admin policy and the admin
\* group when absent, save
InitAuthRules(stored) ==
    LET e1 == IF \E r \in stored.p : IsAdminPolicy(r[1], r[2], r[3])
              THEN stored
              ELSE EngineAddPolicy(stored, AdminPolicy)
        containsAdminGroup == \E r \in e1.g : r[2] = enclaveAdminGroup
    IN  IF containsAdminGroup THEN e1
        ELSE [e1 EXCEPT !.g = @ \cup {<<nullUser, enclaveAdminGroup>>}]

-----------------------------------------------------------------------------
(* Authentication context and the two request middlewares                  *)

authenticatedUser == "authenticatedUser"

EmptyContext == [k \in {} |-> ""]

\* context.WithValue: a new context, the one given is left as it is
WithValue(ctx, key, value) ==
    [k \in DOMAIN ctx \cup {key} |-> IF k = key THEN value ELSE ctx[k]]

SetAuthenticatedUser(ctx, user) == WithValue(ctx, authenticatedUser, user)

GetAuthenticatedUser(ctx) ==
    IF authenticatedUser \in DOMAIN ctx THEN ctx[authenticatedUser]
    ELSE UnauthenticatedUser

\* variant: a denial is not looked at
MiddlewareStatus_DenialIgnored(allowed, engineError) ==
    IF engineError THEN StatusInternalServerError ELSE 0

\* the status Middleware aborts with, 0 when it calls the next handler
MiddlewareStatus(allowed, engineError) ==
    IF engineError THEN StatusInternalServerError
    ELSE IF ~allowed THEN StatusForbidden
    ELSE 0

IdleRequest ==
    [stage |-> "idle", hasBasicAuth |-> FALSE, accepted |-> FALSE, userID |-> "",
     path |-> "", method |-> "", ctx |-> EmptyContext, resolved |-> "",
     status |-> 0, enforced |-> <<>>, engineError |-> FALSE, handlerRan |-> FALSE,
     ran |-> <<>>]

\* the routes api.RegisterHandlers adds inside InitRESTServer, before AddAuth
RegisterHandlers == {"/health"}

\* the handler chain of a route: the middlewares in use when the route was
\* registered, then the route's handler.  A middleware put in use later is
\* not part of the chain of a route registered earlier.
combineHandlers(path) ==
    IF path \in RegisterHandlers
    THEN <<"handler">>
    ELSE <<"authn", "authz", "handler">>

\* identities the BasicAuthenticator of the host application returns
UserIDs == {"alice", "mallory"}

\* two callers of the package-level enforcer: one in AddToGroup(entityName,
\* groupName), one in RemoveGroup(groupName), each between two engine calls
NoCalls ==
    [gt |-> "-", entityName |-> "", groupName |-> "",
     add |-> "idle", addErr |-> "-", remove |-> "idle", removeErr |-> "-"]

-----------------------------------------------------------------------------
(* State machine                                                           *)

Init ==
    /\ enforcer = EmptyRules
    /\ adapter \in StoredRuleSets
    /\ phase = "boot"
    /\ last = NoLast
    /\ nops = 0
    /\ req = IdleRequest
    /\ calls = NoCalls

\* InitAuth; a failing enforcer call ends the process (log.Fatal)
InitAuth(fails) ==
    /\ phase = "boot"
    /\ IF fails
       THEN /\ phase' = "fatal"
            /\ UNCHANGED <<enforcer, adapter>>
       ELSE /\ phase' = "ready"
            /\ enforcer' = InitAuthRules(adapter)
            /\ adapter' = InitAuthRules(adapter)
    /\ UNCHANGED <<last, nops, req, calls>>

\* a manager call returns: its effect on the rules and what it returned
Return(op, gt, args, res) ==
    /\ enforcer' = res.enforcer
    /\ adapter' = res.adapter
    /\ last' = [op |-> op, gt |-> gt, args |-> args, err |-> res.err, name |-> res.name]
    /\ nops' = nops + 1
    /\ UNCHANGED <<phase, req, calls>>

CanCall == phase \in {"ready", "serving"} /\ nops < MaxOps

CreateGroup(gt, groupName, f) ==
    /\ CanCall
    /\ Return("CreateGroup", gt, <<groupName>>,
              CreateGroupResult(enforcer, adapter, gt, groupName, f))

RemoveGroup(gt, groupName, f) ==
    /\ CanCall
    /\ Return("RemoveGroup", gt, <<groupName>>,
              RemoveGroupResult(enforcer, adapter, gt, groupName, f))

AddToGroup(gt, entityName, groups, f) ==
    /\ CanCall
    /\ Return("AddToGroup", gt, <<entityName>> \o groups,
              AddToGroupResult(enforcer, adapter, gt, entityName, groups, f))

RemoveFromGroup(gt, entityName, groups, f) ==
    /\ CanCall
    /\ Return("RemoveFromGroup", gt, <<entityName>> \o groups,
              RemoveFromGroupResult(enforcer, adapter, gt, entityName, groups, f))

RemoveEntity(gt, entityName, f) ==
    /\ CanCall
    /\ Return("RemoveEntity", gt, <<entityName>>,
              RemoveEntityResult(enforcer, adapter, gt, entityName, f))

AddPolicy(userGroup, resourceGroup, method, f) ==
    /\ CanCall
    /\ Return("AddPolicy", "p", <<userGroup, resourceGroup, method>>,
              AddPolicyResult(enforcer, adapter, userGroup, resourceGroup, method, f))

RemovePolicy(userGroup, resourceGroup, method, f) ==
    /\ CanCall
    /\ Return("RemovePolicy", "p", <<userGroup, resourceGroup, method>>,
              RemovePolicyResult(enforcer, adapter, userGroup, resourceGroup, method, f))

\* variant: /health is not added to the health group
AddAuthRules_NoMember(e, a) ==
    LET r1 == CreateGroupResult(e, a, ResourceGroupType, "health_INTERNAL", "none")
    IN  AddPolicyResult(r1.enforcer, r1.adapter, "*", "health_INTERNAL", "GET", "none")

\* AddAuth: install the two middlewares and allow GET /health to everyone;
\* a failing manager call ends the process (log.Fatal)
AddAuthRules(e, a) ==
    LET r1 == CreateGroupResult(e, a, ResourceGroupType, "health_INTERNAL", "none")
        r2 == AddToGroupResult(r1.enforcer, r1.adapter, ResourceGroupType,
                               "/health", <<"health_INTERNAL">>, "none")
    IN  AddPolicyResult(r2.enforcer, r2.adapter, "*", "health_INTERNAL", "GET", "none")

AddAuth(fails) ==
    /\ phase = "ready"
    /\ IF fails
       THEN /\ phase' = "fatal"
            /\ UNCHANGED <<enforcer, adapter>>
       ELSE /\ phase' = "serving"
            /\ enforcer' = AddAuthRules(enforcer, adapter).enforcer
            /\ adapter' = AddAuthRules(enforcer, adapter).adapter
    /\ UNCHANGED <<last, nops, req, calls>>

\* a request enters the handler chain
NewRequest(hasBasicAuth, accepted, userID, path, method) ==
    /\ phase = "serving"
    /\ req.stage \in {"idle", "done"}
    /\ req' = [IdleRequest EXCEPT !.stage = Head(combineHandlers(path)),
                                  !.hasBasicAuth = hasBasicAuth,
                                  !.accepted = accepted,
                                  !.userID = userID,
                                  !.path = path,
                                  !.method = method]
    /\ UNCHANGED <<enforcer, adapter, phase, last, nops, calls>>

\* middleware.Authentication
Authentication ==
    /\ req.stage = "authn"
    /\ LET authorizationFailed == req.hasBasicAuth /\ ~req.accepted
           user == IF req.hasBasicAuth
                   THEN (IF req.accepted THEN req.userID ELSE "")
                   ELSE UnauthenticatedUser
           \* the context SetAuthenticatedUser returns is not kept
           dropped == SetAuthenticatedUser(req.ctx, user)
       IN  req' = [req EXCEPT !.resolved = user,
                              !.ran = Append(@, "authn"),
                              !.ctx = req.ctx,
                              !.status = IF authorizationFailed
                                         THEN StatusUnauthorized ELSE 0,
                              !.stage = IF authorizationFailed
                                        THEN "done" ELSE "authz"]
    /\ UNCHANGED <<enforcer, adapter, phase, last, nops, calls>>

\* AuthModule.Middleware
Middleware(engineError) ==
    /\ req.stage = "authz"
    /\ LET user == GetAuthenticatedUser(req.ctx)
           allowed == Enforce(enforcer, user, req.path, req.method)
           status == MiddlewareStatus(allowed, engineError)
       IN  req' = [req EXCEPT !.enforced = <<user, req.path, req.method>>,
                              !.ran = Append(@, "authz"),
                              !.engineError = engineError,
                              !.status = status,
                              !.stage = IF status = 0 THEN "handler" ELSE "done"]
    /\ UNCHANGED <<enforcer, adapter, phase, last, nops, calls>>

\* the route's handler
Handler ==
    /\ req.stage = "handler"
    /\ req' = [req EXCEPT !.handlerRan = TRUE, !.status = StatusOK, !.stage = "done",
                           !.ran = Append(@, "handler")]
    /\ UNCHANGED <<enforcer, adapter, phase, last, nops, calls>>

ManagerNext ==
    \/ \E gt \in GroupTypes : \E n \in GroupArgs(gt), f \in ReadWriteSave :
           CreateGroup(gt, n, f)
    \/ \E gt \in GroupTypes : \E n \in GroupArgs(gt), f \in ReadWriteSave \cup {"write2"} :
           RemoveGroup(gt, n, f)
    \/ \E gt \in GroupTypes : \E n \in MemberArgs(gt), gs \in GroupLists(gt), f \in ReadWriteSave :
           AddToGroup(gt, n, gs, f)
    \/ \E gt \in GroupTypes : \E n \in MemberArgs(gt), gs \in GroupLists(gt), f \in ReadWriteSave :
           RemoveFromGroup(gt, n, gs, f)
    \/ \E gt \in GroupTypes : \E n \in EntityArgs(gt), f \in WriteSave :
           RemoveEntity(gt, n, f)
    \/ \E ug \in PolicyUserGroupArgs \cup {""}, rg \in PolicyResourceGroupArgs,
          m \in PolicyMethodArgs, f \in ReadWriteSave :
           AddPolicy(ug, rg, m, f)
    \/ \E ug \in PolicyUserGroupArgs, rg \in PolicyResourceGroupArgs,
          m \in PolicyMethodArgs, f \in WriteSave :
           RemovePolicy(ug, rg, m, f)

Next ==
    \/ \E fails \in BOOLEAN : InitAuth(fails)
    \/ ManagerNext

Spec == Init /\ [][Next]_vars

RequestNext ==
    \/ \E fails \in BOOLEAN : InitAuth(fails)
    \/ \E fails \in BOOLEAN : AddAuth(fails)
    \/ \E path \in Objects, method \in Methods :
           NewRequest(FALSE, FALSE, "", path, method)
    \/ \E accepted \in BOOLEAN, userID \in UserIDs, path \in Objects, method \in Methods :
           NewRequest(TRUE, accepted, IF accepted THEN userID ELSE "", path, method)
    \/ Authentication
    \/ \E engineError \in BOOLEAN : Middleware(engineError)
    \/ Handler
    \/ req.stage = "idle" /\ AddPolicy("*", "docs", "GET", "none")

SpecRequest == Init /\ [][RequestNext]_vars

\* AddToGroup and RemoveGroup are entered by two callers at the same time;
\* the steps below are their engine calls, taken one at a time and all
\* succeeding
StartCalls(gt, entityName, groupName) ==
    /\ phase = "ready"
    /\ calls = NoCalls
    /\ calls' = [NoCalls EXCEPT !.gt = gt, !.entityName = entityName,
                                !.groupName = groupName,
                                !.add = "check", !.remove = "check"]
    /\ UNCHANGED <<enforcer, adapter, phase, last, nops, req>>

\* AddToGroup: the reserved-name check and the GroupExists call
AddToGroupExists ==
    /\ calls.add = "check"
    /\ calls' =
           IF IsReserved(calls.gt, calls.entityName)
           THEN [calls EXCEPT !.add = "done", !.addErr = "Conflict"]
           ELSE IF ~GroupExists(enforcer, calls.gt, calls.groupName)
           THEN [calls EXCEPT !.add = "done", !.addErr = "NotFound"]
           ELSE [calls EXCEPT !.add = "write"]
    /\ UNCHANGED <<enforcer, adapter, phase, last, nops, req>>

\* AddToGroup: the AddNamedGroupingPolicies call
AddToGroupWrite ==
    /\ calls.add = "write"
    /\ enforcer' = AddNamedGroupingPolicies(enforcer, calls.gt,
                       GroupingPolicies(calls.entityName, <<calls.groupName>>))
    /\ calls' = [calls EXCEPT !.add = "save"]
    /\ UNCHANGED <<adapter, phase, last, nops, req>>

\* AddToGroup: the SavePolicy call and the return
AddToGroupSave ==
    /\ calls.add = "save"
    /\ adapter' = enforcer
    /\ calls' = [calls EXCEPT !.add = "done", !.addErr = "nil"]
    /\ UNCHANGED <<enforcer, phase, last, nops, req>>

\* RemoveGroup: the protected-name check and the GroupExists call
RemoveGroupExists ==
    /\ calls.remove = "check"
    /\ calls' =
           IF IsProtectedGroup(calls.groupName)
           THEN [calls EXCEPT !.remove = "done", !.removeErr = "Conflict"]
           ELSE IF ~GroupExists(enforcer, calls.gt, calls.groupName)
           THEN [calls EXCEPT !.remove = "done", !.removeErr = "NotFound"]
           ELSE [calls EXCEPT !.remove = "rows"]
    /\ UNCHANGED <<enforcer, adapter, phase, last, nops, req>>

\* RemoveGroup: the RemoveFilteredNamedGroupingPolicy call
RemoveGroupRows ==
    /\ calls.remove = "rows"
    /\ enforcer' = RemoveFilteredNamedGroupingPolicy(enforcer, calls.gt, 1, calls.groupName)
    /\ calls' = [calls EXCEPT !.remove = "policies"]
    /\ UNCHANGED <<adapter, phase, last, nops, req>>

\* RemoveGroup: the RemoveFilteredPolicy call
RemoveGroupRules ==
    /\ calls.remove = "policies"
    /\ enforcer' = RemoveGroupPolicies(enforcer, calls.groupName)
    /\ calls' = [calls EXCEPT !.remove = "save"]
    /\ UNCHANGED <<adapter, phase, last, nops, req>>

\* RemoveGroup: the SavePolicy call and the return
RemoveGroupSave ==
    /\ calls.remove = "save"
    /\ adapter' = enforcer
    /\ calls' = [calls EXCEPT !.remove = "done", !.removeErr = "nil"]
    /\ UNCHANGED <<enforcer, phase, last, nops, req>>

ConcurrentNext ==
    \/ \E fails \in BOOLEAN : InitAuth(fails)
    \/ \E gt \in GroupTypes : \E n \in MemberArgs(gt), g \in ListedGroupArgs(gt) :
           StartCalls(gt, n, g)
    \/ AddToGroupExists
    \/ AddToGroupWrite
    \/ AddToGroupSave
    \/ RemoveGroupExists
    \/ RemoveGroupRows
    \/ RemoveGroupRules
    \/ RemoveGroupSave

SpecConcurrent == Init /\ [][ConcurrentNext]_vars

-----------------------------------------------------------------------------
(* Properties                                                              *)

Initialized == phase \in {"ready", "serving"}

Returned(op, gt) == last.op = op /\ last.gt = gt

\* the rows and rules the claims speak of
HoldsRow(e, gt, entityName, groupName) == <<entityName, groupName>> \in e[gt]

\* C1: in every state reached after initialization through manager
\* operations, the admin policy (admin group, "*", "*") is stored.
C1_AdminPolicyStored == Initialized => AdminPolicy \in ListPolicies(enforcer)

\* C2: after initialization over any stored rules and after any manager
\* operations, the null user is a member of the admin group and is allowed
\* every action on every object.
C2_NullUserHasFullAccess ==
    Initialized =>
        /\ HoldsRow(enforcer, UserGroupType, nullUser, enclaveAdminGroup)
        /\ \A o \in Objects, m \in Methods : Enforce(enforcer, nullUser, o, m)

\* what C3 gives as the meaning of Enforce: a stored policy whose user group
\* is "*" or holds the row (u, ug), whose resource group is "*" or holds the
\* row (r, rg), and whose action is "*" or the action asked
RowGrants(e, sub, obj, act) ==
    \E rule \in e.p :
        /\ rule[1] = "*" \/ HoldsRow(e, UserGroupType, sub, rule[1])
        /\ rule[2] = "*" \/ HoldsRow(e, ResourceGroupType, obj, rule[2])
        /\ rule[3] = "*" \/ rule[3] = act

ScenarioHeld(e) ==
    /\ GetFilteredNamedGroupingPolicy(e, UserGroupType, 1, "team1")
           = {<<"team1", "team1">>, <<"alice", "team1">>}
    /\ GetFilteredNamedGroupingPolicy(e, ResourceGroupType, 1, "docs")
           = {<<"docs", "docs">>, <<"/docs", "docs">>}
    /\ <<"team1", "docs", "GET">> \in e.p
    /\ e.p \subseteq {AdminPolicy, <<"team1", "docs", "GET">>}

\* C3: Enforce(u, r, a) is allowed if and only if some stored policy grants
\* it through the rows of the two relations; with team1 = {alice},
\* docs = {/docs} and the policy (team1, docs, GET), alice GET /docs is
\* allowed, alice DELETE /docs and mallory GET /docs are denied.
C3_EnforceIffRowGrants ==
    Initialized =>
        /\ \A u \in Subjects, o \in Objects, m \in Methods :
               Enforce(enforcer, u, o, m) <=> RowGrants(enforcer, u, o, m)
        /\ ScenarioHeld(enforcer) =>
               /\ Enforce(enforcer, "alice", "/docs", "GET")
               /\ ~Enforce(enforcer, "alice", "/docs", "DELETE")
               /\ ~Enforce(enforcer, "mallory", "/docs", "GET")

\* C4: in every state, removing the admin group of either kind and removing
\* the admin policy return ConflictError.
C4_ProtectedRemovalsConflict ==
    /\ (last.op = "RemoveGroup" /\ last.args = <<enclaveAdminGroup>>)
           => last.err = "Conflict"
    /\ (last.op = "RemovePolicy" /\ last.args = <<enclaveAdminGroup, "*", "*">>)
           => last.err = "Conflict"
    /\ Initialized =>
           /\ \A gt \in GroupTypes, f \in ReadWriteSave \cup {"write2"} :
                  RemoveGroupResult(enforcer, adapter, gt, enclaveAdminGroup, f).err
                      = "Conflict"
           /\ \A f \in WriteSave :
                  RemovePolicyResult(enforcer, adapter, enclaveAdminGroup, "*", "*", f).err
                      = "Conflict"

C4_Witness ==
    /\ Returned("RemoveGroup", ResourceGroupType)
    /\ last.args = <<enclaveAdminGroup>>
    /\ last.err = "Conflict"
    /\ AdminPolicy \in enforcer.p
    /\ GroupExists(enforcer, UserGroupType, enclaveAdminGroup)

IsNullEntityCall ==
    /\ last.op \in {"AddToGroup", "RemoveFromGroup", "RemoveEntity"}
    /\ \/ last.gt = UserGroupType /\ last.args[1] = nullUser
       \/ last.gt = ResourceGroupType /\ last.args[1] = nullResource

\* C5: for each kind, AddToGroup, RemoveFromGroup and RemoveEntity return
\* ConflictError when the entity is that kind's null entity, whatever the
\* groups named, existing or not.
C5_NullEntityConflict == IsNullEntityCall => last.err = "Conflict"

C5_Witness ==
    /\ Returned("AddToGroup", ResourceGroupType)
    /\ last.args = <<nullResource, "docs">>
    /\ ~GroupExists(enforcer, ResourceGroupType, "docs")
    /\ last.err = "Conflict"

\* the Enforce decisions of e that no policy outside user group ug supports
OnlyThroughGroup(e, ug, sub, obj, act) ==
    /\ Enforce(e, sub, obj, act)
    /\ ~Enforce([e EXCEPT !.p = {rule \in @ : rule[1] # ug}], sub, obj, act)

\* C6: after RemoveUserGroup(g) succeeds, the user group g does not exist,
\* no user row names g, no stored policy has g as its user group, and every
\* Enforce call that was allowed only through the policies of g is denied.
C6_RemoveUserGroupCleansUp ==
    [][ (Returned("RemoveGroup", UserGroupType)' /\ last'.err = "nil" /\ nops' # nops) =>
            LET gname == last'.args[1] IN
            /\ ~GroupExists(enforcer', UserGroupType, gname)
            /\ \A r \in enforcer'.g : r[2] # gname
            /\ \A rule \in enforcer'.p : rule[1] # gname
            /\ \A u \in Subjects, o \in Objects, m \in Methods :
                   OnlyThroughGroup(enforcer, gname, u, o, m)
                       => ~Enforce(enforcer', u, o, m) ]_vars

C6_Witness ==
    /\ Returned("RemoveGroup", UserGroupType)
    /\ last.args = <<"team1">>
    /\ last.err = "nil"
    /\ HoldsRow(enforcer, ResourceGroupType, "/docs", "docs")
    /\ ~Enforce(enforcer, "alice", "/docs", "GET")
    /\ AdminPolicy \in enforcer.p

\* C7: after RemoveResourceGroup(g) succeeds, the resource group g does not
\* exist, no resource row names g, and no stored policy has g as its
\* resource group.
C7_RemoveResourceGroupCleansUp ==
    (Returned("RemoveGroup", ResourceGroupType) /\ last.err = "nil") =>
        /\ ~GroupExists(enforcer, ResourceGroupType, last.args[1])
        /\ \A r \in enforcer.g2 : r[2] # last.args[1]
        /\ \A rule \in enforcer.p : rule[2] # last.args[1]

\* the authorization Middleware has run for the request
AuthzReached == req.enforced # <<>>

\* C8: the authorization Middleware calls Enforce(identity read from the
\* request context, path, method); the handler runs only when the engine
\* allows without error; a denial aborts with 403 and an engine error with
\* 500, and in both cases the handler does not run.
C8_MiddlewareGate ==
    AuthzReached =>
        LET allowed == Enforce(enforcer, req.enforced[1], req.enforced[2], req.enforced[3])
        IN  /\ req.enforced = <<GetAuthenticatedUser(req.ctx), req.path, req.method>>
            /\ req.engineError =>
                   /\ req.status = StatusInternalServerError
                   /\ req.stage = "done" /\ ~req.handlerRan
            /\ (~req.engineError /\ ~allowed) =>
                   /\ req.status = StatusForbidden
                   /\ req.stage = "done" /\ ~req.handlerRan
            /\ (~req.engineError /\ allowed) => req.status \in {0, StatusOK}
            /\ req.handlerRan => (allowed /\ ~req.engineError)

C8_Witness ==
    /\ req.stage = "done"
    /\ req.status = StatusForbidden
    /\ req.enforced = <<UnauthenticatedUser, "/docs", "GET">>
    /\ ~req.handlerRan

\* C9: the Authentication middleware ends in exactly one of three outcomes:
\* no credentials, the request proceeds with the unauthenticated sentinel;
\* credentials accepted, the request proceeds with the identity the
\* authenticator returned; credentials rejected, the request is aborted with
\* 401 and neither the authorization check nor the handler runs.
C9_AuthenticationOutcomes ==
    (req.ran # <<>> /\ req.ran[1] = "authn") =>
        LET proceeds == req.status # StatusUnauthorized
            identity == GetAuthenticatedUser(req.ctx)
        IN  \/ ~req.hasBasicAuth /\ proceeds /\ identity = UnauthenticatedUser
            \/ req.hasBasicAuth /\ req.accepted /\ proceeds /\ identity = req.userID
            \/ /\ req.hasBasicAuth /\ ~req.accepted
               /\ req.status = StatusUnauthorized /\ req.stage = "done"
               /\ req.enforced = <<>> /\ ~req.handlerRan

\* C10: for every request that passes authentication, the identity the
\* authorization Middleware passes to Enforce is the identity the
\* Authentication middleware resolved for that request.
C10_EnforcedIdentityIsResolved ==
    req.enforced # <<>> =>
        /\ req.enforced[1] = req.resolved
        /\ req.resolved = IF req.hasBasicAuth THEN req.userID ELSE UnauthenticatedUser

\* existence of a group as the specification states it: some row of the
\* kind names it as its group
RowNamesGroup(e, gt, groupName) == \E r \in e[gt] : r[2] = groupName

\* the groups of the list that no row names, by position
MissingPositions(e, gt, groups) ==
    {i \in 1..Len(groups) : ~RowNamesGroup(e, gt, groups[i])}

\* a call of AddToGroup or RemoveFromGroup with a non-null entity returns in
\* this step without an engine failure
MembershipCallReturns ==
    /\ nops' # nops
    /\ last'.op \in {"AddToGroup", "RemoveFromGroup"}
    /\ last'.args[1] # NullName(last'.gt)
    /\ last'.err # "Casbin"

\* C11: when a target group of AddToGroup or RemoveFromGroup does not exist,
\* the call returns NotFoundError naming the first missing group in argument
\* order and no membership row is added or removed for any target.
C11_MissingGroupNotFound ==
    [][ LET groups == Tail(last'.args)
            missing == MissingPositions(enforcer, last'.gt, groups)
        IN  (MembershipCallReturns /\ missing # {}) =>
                /\ last'.err = "NotFound"
                /\ \A i \in missing :
                       (\A j \in missing : i <= j) => last'.name = groups[i]
                /\ enforcer' = enforcer
                /\ adapter' = adapter ]_vars

\* C12: after CreateGroup(g) succeeds for a group g of either kind that did
\* not exist before, GroupExists(g) is true and GetEntitiesInGroup(g)
\* returns an empty list.
C12_CreatedGroupListsNobody ==
    [][ LET gt == last'.gt
            groupName == last'.args[1]
        IN  ( /\ nops' # nops
              /\ last'.op = "CreateGroup"
              /\ last'.err = "nil"
              /\ ~RowNamesGroup(enforcer, gt, groupName) ) =>
                /\ GroupExists(enforcer', gt, groupName)
                /\ GetEntitiesInGroup(enforcer', gt, groupName).err = "nil"
                /\ GetEntitiesInGroup(enforcer', gt, groupName).entityNames = {} ]_vars

\* the entities the listing of a group shows
Listed(e, gt, groupName) == GetEntitiesInGroup(e, gt, groupName).entityNames

\* every group named by a successful AddToGroup lists the entity added
AddedAreListed ==
    (nops' # nops /\ last'.op = "AddToGroup" /\ last'.err = "nil") =>
        \A i \in 2..Len(last'.args) :
            last'.args[1] \in Listed(enforcer', last'.gt, last'.args[i])

\* C13: for each kind, GetEntitiesInGroup(g) of an existing group lists every
\* entity added to g by a successful AddToGroup and not removed since, and
\* never lists that kind's null entity; after initialization with an empty
\* store the listing of the admin group is empty; for a group that does not
\* exist it returns NotFoundError.  Stated for the groups with a non-empty
\* name.
C13_ListingShowsMembers ==
    [][ /\ AddedAreListed
        /\ \A gt \in GroupTypes : \A groupName \in GroupArgs(gt) \ {""} :
               /\ NullName(gt) \notin Listed(enforcer', gt, groupName)
               /\ ~RowNamesGroup(enforcer', gt, groupName) =>
                      GetEntitiesInGroup(enforcer', gt, groupName).err = "NotFound"
        /\ enforcer' = InitAuthRules(EmptyRules) =>
               Listed(enforcer', UserGroupType, enclaveAdminGroup) = {} ]_vars

\* the last call was a successful AddToGroup(u, g1, g2)
AddedToTwo(l) == l.op = "AddToGroup" /\ l.err = "nil" /\ Len(l.args) = 3

\* C14: for every entity u and every two distinct existing groups g1, g2 of
\* one kind: after AddToGroup(u, g1, g2), GetGroupsForEntity(u) contains g1
\* and g2; after a following RemoveFromGroup(u, g1) it contains g2 and does
\* not contain g1.
C14_AddTwoRemoveOne ==
    [][ nops' # nops =>
        /\ AddedToTwo(last') =>
               {last'.args[2], last'.args[3]}
                   \subseteq GetGroupsForEntity(enforcer', last'.gt, last'.args[1])
        /\ ( /\ AddedToTwo(last)
             /\ last'.op = "RemoveFromGroup" /\ last'.err = "nil"
             /\ last'.gt = last.gt
             /\ last'.args = <<last.args[1], last.args[2]>> ) =>
               /\ last.args[3] \in GetGroupsForEntity(enforcer', last.gt, last.args[1])
               /\ last.args[2] \notin GetGroupsForEntity(enforcer', last.gt, last.args[1])
      ]_vars

\* a group that CreateGroup made: it exists and holds the row CreateGroup wrote
Created(e, gt, groupName) ==
    GroupExists(e, gt, groupName) /\ HoldsRow(e, gt, groupName, groupName)

\* C15: once CreateGroup(g) has succeeded, GroupExists(g) stays true until a
\* RemoveGroup(g) succeeds: no AddToGroup, RemoveFromGroup, RemoveEntity,
\* AddPolicy or RemovePolicy call makes an existing group cease to exist.
\* Stated for calls whose arguments are all non-empty names.
C15_GroupStaysUntilRemoved ==
    [][ ( /\ nops' # nops
          /\ last'.op \in {"AddToGroup", "RemoveFromGroup", "RemoveEntity",
                           "AddPolicy", "RemovePolicy"}
          /\ \A i \in 1..Len(last'.args) : last'.args[i] # "" ) =>
            \A gt \in GroupTypes : \A groupName \in GroupArgs(gt) \ {""} :
                Created(enforcer, gt, groupName) => GroupExists(enforcer', gt, groupName)
      ]_vars

\* C16: whenever a manager operation returns success, the persisted store
\* equals the rules the engine holds in memory at that moment, also after an
\* earlier operation failed in its persist step.
C16_SuccessMeansSaved ==
    (last.op # "none" /\ last.err = "nil") => adapter = enforcer

\* C17: after a successful AddPolicy(ug, rg, a), ListPolicies contains the
\* triple (ug, rg, a) exactly once, whether or not it was stored before.
\* (The engine refuses a rule it already holds, so the rules are a set.)
C17_AddedPolicyListedOnce ==
    (last.op = "AddPolicy" /\ last.err = "nil") =>
        Cardinality({rule \in ListPolicies(enforcer) : rule = last.args}) = 1

\* the side of an AddPolicy call that names a group no row names
MissingSide(e, gt, groupName) == groupName # "*" /\ ~RowNamesGroup(e, gt, groupName)

\* C18: AddPolicy(ug, rg, a) returns NotFoundError when ug is not "*" and no
\* user group ug exists, or when rg is not "*" and no resource group rg
\* exists; a side equal to "*" is never checked, the user group is checked
\* before the resource group, and the policy set is unchanged when the error
\* is returned.
C18_AddPolicyNotFound ==
    [][ (nops' # nops /\ last'.op = "AddPolicy" /\ last'.err # "Casbin") =>
            LET ug == last'.args[1]
                rg == last'.args[2]
                missingUser == MissingSide(enforcer, UserGroupType, ug)
                missingResource == MissingSide(enforcer, ResourceGroupType, rg)
            IN  /\ last'.err = "NotFound" <=> (missingUser \/ missingResource)
                /\ missingUser => last'.name = ug
                /\ (~missingUser /\ missingResource) => last'.name = rg
                /\ last'.err = "NotFound" => enforcer'.p = enforcer.p ]_vars

\* the call that returns in this step is one of the three documented no-ops
IsDocumentedNoOp ==
    \/ last'.op = "CreateGroup" /\ RowNamesGroup(enforcer, last'.gt, last'.args[1])
    \/ last'.op = "AddPolicy" /\ last'.args \in ListPolicies(enforcer)
    \/ last'.op = "RemovePolicy" /\ last'.args \notin ListPolicies(enforcer)

\* C19: CreateGroup of a group that already exists, AddPolicy of a triple
\* that is already stored and RemovePolicy of a triple that is not stored
\* return no error and leave membership rows and policies unchanged.
C19_DocumentedNoOps ==
    [][ (nops' # nops /\ last'.err # "Casbin" /\ IsDocumentedNoOp) =>
            last'.err = "nil" /\ enforcer' = enforcer ]_vars

\* the membership rows of the entities other than entityName, both kinds
RowsOfOthers(e, gt, entityName) ==
    [k \in GroupTypes |-> IF k = gt THEN {r \in e[k] : r[1] # entityName} ELSE e[k]]

\* C20: after RemoveEntity(e) succeeds for a non-null entity e of one kind,
\* GetGroupsForEntity(e) is empty for that kind and the memberships of every
\* other entity are unchanged.
C20_RemoveEntityRemovesOnlyIts ==
    [][ (nops' # nops /\ last'.op = "RemoveEntity" /\ last'.err = "nil") =>
            LET gt == last'.gt
                entityName == last'.args[1]
            IN  /\ GetGroupsForEntity(enforcer', gt, entityName) = {}
                /\ RowsOfOthers(enforcer', gt, entityName)
                       = RowsOfOthers(enforcer, gt, entityName) ]_vars

\* C21: GetGroups of one kind returns exactly one entry per distinct group
\* name that appears in that kind's membership relation, however many rows
\* name the group.
C21_OneEntryPerGroup ==
    Initialized =>
        \A gt \in GroupTypes : \A r \in enforcer[gt] :
            Cardinality({x \in GetGroups(enforcer, gt) : x.GroupName = r[2]}) = 1

\* a GET /health request without credentials has been answered
HealthAnswered ==
    /\ req.stage = "done"
    /\ ~req.hasBasicAuth
    /\ req.path = "/health" /\ req.method = "GET"

\* C22: after AddAuth has run on a freshly initialized auth module,
\* Enforce(u, "/health", "GET") is allowed for every identity u, the
\* unauthenticated sentinel included, and a GET /health request without
\* credentials is answered with 200.
C22_HealthOpenToAll ==
    /\ phase = "serving" =>
           \A u \in Subjects : Enforce(enforcer, u, "/health", "GET")
    /\ HealthAnswered => req.status = StatusOK

C22_Witness ==
    /\ phase = "serving"
    /\ HealthAnswered
    /\ req.status = StatusOK
    /\ req.handlerRan
    /\ Enforce(enforcer, UnauthenticatedUser, "/health", "GET")
    /\ ~Enforce(enforcer, UnauthenticatedUser, "/health", "DELETE")

\* a RemoveGroup call on a non-empty name returns in this step
RemoveGroupReturns(gt) ==
    /\ nops' # nops
    /\ last'.op = "RemoveGroup" /\ last'.gt = gt
    /\ last'.args[1] # ""

\* C23: RemoveGroup of one kind affects only that kind, also for a name that
\* both kinds carry: RemoveResourceGroup(n) changes no user row and removes
\* no policy but those whose resource group is n; RemoveUserGroup(n) changes
\* no resource row and removes no policy but those whose user group is n.
C23_RemoveGroupKeepsOtherKind ==
    [][ /\ RemoveGroupReturns(ResourceGroupType) =>
               /\ enforcer'.g = enforcer.g
               /\ \A rule \in enforcer.p \ enforcer'.p : rule[2] = last'.args[1]
        /\ RemoveGroupReturns(UserGroupType) =>
               /\ enforcer'.g2 = enforcer.g2
               /\ \A rule \in enforcer.p \ enforcer'.p : rule[1] = last'.args[1]
      ]_vars

\* C24: when in RemoveGroup(g) the engine call removing the rows succeeds and
\* the engine call removing the policies fails, RemoveGroup returns an engine
\* error, memory holds no row naming g as a group, every policy naming g is
\* still stored, and nothing is put back: the rows stay removed in memory and
\* the store is not written.
C24_PolicyRemovalFailure ==
    Initialized =>
        \A gt \in GroupTypes : \A g \in GroupArgs(gt) :
            (~IsProtectedGroup(g) /\ GroupExists(enforcer, gt, g)) =>
                LET res == RemoveGroupResult(enforcer, adapter, gt, g, "write2")
                IN  /\ res.err = "Casbin" /\ res.name = "RemoveGroup"
                    /\ ~GroupExists(res.enforcer, gt, g)
                    /\ res.enforcer[gt] # enforcer[gt]
                    /\ \A rule \in enforcer.p :
                           (rule[1] = g \/ rule[2] = g) => rule \in res.enforcer.p
                    /\ res.adapter = adapter

\* RemoveUserGroup("team1") has returned an engine error with the rows of
\* team1 gone from memory and the policy of team1 still there
C24_Witness ==
    /\ Returned("RemoveGroup", UserGroupType)
    /\ last.args = <<"team1">>
    /\ last.err = "Casbin" /\ last.name = "RemoveGroup"
    /\ ~GroupExists(enforcer, UserGroupType, "team1")
    /\ <<"team1", "docs", "GET">> \in enforcer.p
    /\ HoldsRow(adapter, UserGroupType, "alice", "team1")

\* C25: initialization is idempotent: initializing again over the store an
\* earlier initialization seeded, with any later manager operations applied,
\* adds no policy and no row and leaves the store as it is.
C25_InitIdempotent ==
    Initialized =>
        /\ InitAuthRules(adapter).p = adapter.p
        /\ InitAuthRules(adapter).g = adapter.g
        /\ InitAuthRules(adapter).g2 = adapter.g2

\* C26: on every route served once AddAuth has been called, the routes
\* registered by InitRESTServer before AddAuth included, the handler of a
\* request runs only after Authentication and then the authorization
\* Middleware have let the request through, in that order.
C26_HandlerBehindBothMiddlewares ==
    req.handlerRan =>
        /\ req.ran = <<"authn", "authz", "handler">>
        /\ req.status = StatusOK
        /\ req.enforced = <<GetAuthenticatedUser(req.ctx), req.path, req.method>>

\* C27: in every state reached from initialization through manager
\* operations, the user group of each stored policy is "*" or an existing
\* user group and its resource group is "*" or an existing resource group.
C27_NoDanglingPolicy ==
    Initialized =>
        \A rule \in ListPolicies(enforcer) :
            /\ ~MissingSide(enforcer, UserGroupType, rule[1])
            /\ ~MissingSide(enforcer, ResourceGroupType, rule[2])

\* a member that AddToGroup (or the seeding of the null user) put in the
\* group: a row of the group whose entity is not the group's own name
ExplicitMember(e, gt, entityName, groupName) ==
    entityName # groupName /\ HoldsRow(e, gt, entityName, groupName)

\* the policy grants the request through explicit members only
GrantsExplicitly(e, rule, sub, obj, act) ==
    /\ rule[1] = "*" \/ ExplicitMember(e, UserGroupType, sub, rule[1])
    /\ rule[2] = "*" \/ ExplicitMember(e, ResourceGroupType, obj, rule[2])
    /\ rule[3] = "*" \/ rule[3] = act

\* C28: an identity is allowed through a policy whose user group is not "*"
\* only if it is an explicitly added member of that group (or the seeded
\* null user), and the same for an object and the resource group; the name
\* of a group gets nothing from the group being created, and membership is
\* not inherited through another group.
C28_OnlyExplicitMembers ==
    Initialized =>
        \A u \in Subjects \cup {"team1"}, o \in Objects \cup {"docs"}, m \in Methods :
            Enforce(enforcer, u, o, m) =>
                \E rule \in enforcer.p : GrantsExplicitly(enforcer, rule, u, o, m)

\* C29: every manager operation that returns ConflictError or NotFoundError
\* leaves the two relations, the policy set and the store as they were
\* before the call.
C29_RefusalChangesNothing ==
    [][ (nops' # nops /\ last'.err \in {"Conflict", "NotFound"}) =>
            /\ enforcer' = enforcer
            /\ adapter' = adapter
      ]_vars

\* AddToGroup with a list whose first group exists and whose second does not
\* has returned NotFoundError for the second, and the entity is not in the first
C29_Witness ==
    /\ last.op = "AddToGroup"
    /\ Len(last.args) = 3
    /\ last.err = "NotFound" /\ last.name = last.args[3]
    /\ GroupExists(enforcer, last.gt, last.args[2])
    /\ ~HoldsRow(enforcer, last.gt, last.args[1], last.args[2])
    /\ ~HoldsRow(adapter, last.gt, last.args[1], last.args[2])

\* both concurrent calls have returned without an error
BothSucceeded ==
    /\ calls.add = "done" /\ calls.addErr = "nil"
    /\ calls.remove = "done" /\ calls.removeErr = "nil"

\* C30: when AddToGroup(e, g) and RemoveGroup(g) of two callers interleave
\* between engine calls and both return success, the outcome is that of a
\* serial execution: g does not exist and no row names g, in memory and in
\* the store; AddToGroup does not bring back a removed group.
C30_InterleavingIsSerial ==
    BothSucceeded =>
        /\ ~GroupExists(enforcer, calls.gt, calls.groupName)
        /\ ~RowNamesGroup(enforcer, calls.gt, calls.groupName)
        /\ ~RowNamesGroup(adapter, calls.gt, calls.groupName)

====
